---- MODULE Spec2Model ----
(***************************************************************************)
(* Model of nerfactory/datamanagers/dataparsers/friends_parser.py:         *)
(* the Friends data parser (_generate_dataset_inputs), the geometry loader *)
(* (_get_aabb_and_transform) and the per-image loader                      *)
(* (get_semantics_and_masks).                                              *)
(*                                                                         *)
(* Strings and paths are sequences of one-character strings, tensors are   *)
(* sequences (of sequences) of integers, Python's None is the empty        *)
(* sequence and a present value x is <<x>>.  Tensor values are exact       *)
(* integers: float32 rounding and tensor dtypes are not modelled.          *)
(***************************************************************************)
EXTENDS Integers, Sequences, FiniteSets, TLC

VARIABLES
    config,            \* self.config: data_directory, include_semantics
    files,             \* the file system the parser reads: cameras, panoptic, threejs
    pc,                \* position in the call being executed
    frames,            \* cameras_json["frames"] once loaded
    bbox,              \* bbox tensor (line 93, rotated at line 122)
    image_filenames,   \* list built by the loop (line 107)
    fx, fy, cx, cy,    \* per-frame intrinsics (lines 108-111)
    camera_to_worlds,  \* per-frame 3x4 transforms (line 112, rotated at line 121)
    semantics,         \* None or the Semantics struct (lines 132-154)
    error,             \* the exception that ended the call, "" when none
    result,            \* None or the returned value of the call
    opened,            \* every file path opened so far
    invoked,           \* the image indices the registered loader was invoked with
    lastCall           \* None or the last invocation of the registered loader

vars == <<config, files, pc, frames, bbox, image_filenames, fx, fy, cx, cy,
          camera_to_worlds, semantics, error, result, opened, invoked, lastCall>>

None == <<>>
Some(x) == <<x>>

\* The largest number of frame entries of a modelled cameras.json.
MaxFrames == 2

(***************************************************************************)
(* Strings                                                                 *)
(***************************************************************************)
SLASH == "/"
S_images == <<"i","m","a","g","e","s">>
S_images_dir == <<"/","i","m","a","g","e","s","/">>
S_thing_dir == <<"/","s","e","g","m","e","n","t","a","t","i","o","n","s","/","t","h","i","n","g","/">>
S_stuff_dir == <<"/","s","e","g","m","e","n","t","a","t","i","o","n","s","/","s","t","u","f","f","/">>
S_jpg == <<".","j","p","g">>
S_png == <<".","p","n","g">>
S_cameras_json == <<"c","a","m","e","r","a","s",".","j","s","o","n">>
S_panoptic_json == <<"p","a","n","o","p","t","i","c","_","c","l","a","s","s","e","s",".","j","s","o","n">>
S_threejs_json == <<"t","h","r","e","e","j","s",".","j","s","o","n">>

\* str.replace(old, new): every non-overlapping occurrence, left to right.
RECURSIVE ReplaceFrom(_, _, _, _)
ReplaceFrom(s, i, old, new) ==
    IF i > Len(s) THEN <<>>
    ELSE IF i + Len(old) - 1 <= Len(s) /\ SubSeq(s, i, i + Len(old) - 1) = old
         THEN new \o ReplaceFrom(s, i + Len(old), old, new)
         ELSE <<s[i]>> \o ReplaceFrom(s, i + 1, old, new)

Replace(s, old, new) == ReplaceFrom(s, 1, old, new)

(***************************************************************************)
(* pathlib.Path (POSIX flavour)                                            *)
(***************************************************************************)
RECURSIVE SplitFrom(_, _, _)
SplitFrom(s, i, cur) ==
    IF i > Len(s) THEN <<cur>>
    ELSE IF s[i] = SLASH THEN <<cur>> \o SplitFrom(s, i + 1, <<>>)
         ELSE SplitFrom(s, i + 1, Append(cur, s[i]))

KeptPart(c) == c # <<>> /\ c # <<".">>

\* The components of a path string: empty and "." components are dropped.
Parts(s) == SelectSeq(SplitFrom(s, 1, <<>>), KeptPart)

\* The root of a path string: "", "/" or (exactly two leading slashes) "//".
Root(s) ==
    IF Len(s) >= 1 /\ s[1] = SLASH
    THEN IF Len(s) >= 2 /\ s[2] = SLASH /\ (Len(s) = 2 \/ s[3] # SLASH)
         THEN <<SLASH, SLASH>> ELSE <<SLASH>>
    ELSE <<>>

RECURSIVE JoinParts(_)
JoinParts(ps) ==
    IF ps = <<>> THEN <<>>
    ELSE IF Len(ps) = 1 THEN ps[1]
         ELSE ps[1] \o <<SLASH>> \o JoinParts(Tail(ps))

\* str(Path(s)): the normal form pathlib keeps.
PathOf(s) ==
    LET r == Root(s)
        p == JoinParts(Parts(s))
    IN IF r = <<>> /\ p = <<>> THEN <<".">> ELSE r \o p

IsAbsolute(s) == Len(s) >= 1 /\ s[1] = SLASH

\* Path.__truediv__: an absolute right operand replaces the left one.
PathJoin(p, q) ==
    IF IsAbsolute(q) THEN PathOf(q) ELSE PathOf(p \o <<SLASH>> \o q)

\* nerfactory.utils.io.get_absolute_path: relative paths are resolved against
\* the project root.
ProjectRoot == <<"/","r">>
get_absolute_path(p) == PathJoin(ProjectRoot, p)

(***************************************************************************)
(* Tensors                                                                 *)
(***************************************************************************)
RECURSIVE SumTo(_, _)
SumTo(f, n) == IF n = 0 THEN 0 ELSE f[n] + SumTo(f, n - 1)

\* A @ B for 2-D tensors.
MatMul(A, B) ==
    [i \in 1..Len(A) |->
        [j \in 1..Len(B[1]) |->
            SumTo([k \in 1..Len(B) |-> A[i][k] * B[k][j]], Len(B))]]

\* M.T for a 2-D tensor.
Transpose(M) == [j \in 1..Len(M[1]) |-> [i \in 1..Len(M) |-> M[i][j]]]

\* np.array(list).reshape(4, 4)
Reshape44(l) == [i \in 1..4 |-> [j \in 1..4 |-> l[4 * (i - 1) + j]]]

\* t[:, 0:3]
Cols3(M) == [i \in 1..Len(M) |-> SubSeq(M[i], 1, 3)]

\* t[:3]
Rows3(M) == SubSeq(M, 1, 3)

(***************************************************************************)
(* Inputs: the configuration and the files under the data directory        *)
(***************************************************************************)
\* frame["intrinsics"]: a 3x3 array; the entries the parser does not read
\* carry values of their own.
Intrinsics(a, b, c, d) == << <<a, 7, c>>, <<8, b, d>>, <<9, 9, 1>> >>

\* frame["camtoworld"]: 4x4 arrays.
C2W_A == << <<1, 2, 3, 4>>, <<5, 6, 7, 8>>, <<9, 10, 11, 12>>, <<13, 14, 15, 16>> >>
C2W_B == << <<1, 0, 0, 0>>, <<0, 1, 0, 1>>, <<0, 0, 1, 0>>, <<0, 0, 0, 1>> >>

N_a == <<"a",".","j","p","g">>
N_b == <<"b",".","j","p","g">>
N_abs == <<"/","a",".","j","p","g">>

\* The frame entries a cameras.json is built from.
FrameSet ==
    { [image_name |-> N_a,   intrinsics |-> Intrinsics(1, 2, 3, 4), camtoworld |-> C2W_A],
      [image_name |-> N_b,   intrinsics |-> Intrinsics(5, 6, 3, 4), camtoworld |-> C2W_B],
      [image_name |-> N_b,   intrinsics |-> Intrinsics(1, 2, 5, 4), camtoworld |-> C2W_A],
      [image_name |-> N_a,   intrinsics |-> Intrinsics(1, 2, 3, 6), camtoworld |-> C2W_B],
      [image_name |-> N_abs, intrinsics |-> Intrinsics(5, 6, 3, 4), camtoworld |-> C2W_A] }

\* cameras_json["bbox"]: 2x3 arrays, each a min/max corner pair.
BBoxSet ==
    { << <<0, 0, 0>>, <<1, 2, 3>> >>,
      << <<0, 0, 5>>, <<1, 1, 5>> >> }

FrameSeqs == UNION { [1..n -> FrameSet] : n \in 0..MaxFrames }

CamerasFiles == { [frames |-> f, bbox |-> b] : f \in FrameSeqs, b \in BBoxSet }

\* panoptic_classes.json
PanopticFiles ==
    { [thing |-> t, thing_colors |-> [i \in 1..Len(t) |-> <<255, 0, 51>>],
       stuff |-> <<"sky", "wall">>, stuff_colors |-> << <<0, 0, 0>>, <<255, 255, 255>> >>]
      : t \in { <<"person", "car">>, <<"car", "person", "person">>, <<"car">> } }

\* config.data_directory
DataDirs == { <<"d">>, <<"/","i","m","a","g","e","s","/","d">> }

\* The decoded label images a segmentation file may hold (H x W class indices).
LabelImages ==
    { << <<0, 1>>, <<1, 2>> >>,
      << <<2, 2>>, <<1, 0>> >> }

\* data["object"]["children"][k]["matrix"]: 16 numbers, column-major.
M_identity == <<1, 0, 0, 0,  0, 1, 0, 0,  0, 0, 1, 0,  0, 0, 0, 1>>
M_translate == <<1, 0, 0, 0,  0, 1, 0, 0,  0, 0, 1, 0,  3, 4, 5, 1>>
M_rotz == <<0, 1, 0, 0,  -1, 0, 0, 0,  0, 0, 1, 0,  3, 4, 5, 1>>
M_w2 == <<1, 0, 0, 0,  0, 1, 0, 0,  0, 0, 1, 0,  3, 4, 5, 2>>
MatrixSet == { M_identity, M_translate, M_rotz, M_w2 }

\* data["geometries"][1]["width" | "height" | "depth"]; even, so that the
\* halves of line 79 are integers.
DimSet == { 2, 4 }

ThreejsFiles ==
    { [object |-> [children |-> << [matrix |-> m0], [matrix |-> m1] >>],
       geometries |-> << [width |-> 0, height |-> 0, depth |-> 0],
                         [width |-> w, height |-> h, depth |-> d] >>]
      : m0 \in MatrixSet, m1 \in MatrixSet, w \in DimSet, h \in DimSet, d \in DimSet }


(***************************************************************************)
(* Initial states: one call of _generate_dataset_inputs on a data          *)
(* directory, or one call of _get_aabb_and_transform on a base directory.  *)
(***************************************************************************)
Locals ==
    /\ frames = <<>> /\ bbox = <<>> /\ image_filenames = <<>>
    /\ fx = <<>> /\ fy = <<>> /\ cx = <<>> /\ cy = <<>> /\ camera_to_worlds = <<>>
    /\ semantics = None /\ error = "" /\ result = None
    /\ opened = {} /\ invoked = {} /\ lastCall = None

InitDataset ==
    /\ pc = "start"
    /\ config \in [data_directory : DataDirs, include_semantics : BOOLEAN]
    /\ \E c \in {None} \cup {Some(f) : f \in CamerasFiles} :
       \E p \in {None} \cup {Some(f) : f \in PanopticFiles} :
          /\ (config.include_semantics \/ p = None)
          /\ files = [cameras |-> c, panoptic |-> p, threejs |-> None]
    /\ Locals

InitGeometry ==
    /\ pc = "geometry"
    /\ config = [data_directory |-> <<"d">>, include_semantics |-> FALSE]
    /\ \E t \in {None} \cup {Some(f) : f \in ThreejsFiles} :
          files = [cameras |-> None, panoptic |-> None, threejs |-> t]
    /\ Locals

Init == InitDataset \/ InitGeometry

abs_dir == get_absolute_path(config.data_directory)

\* An exception leaves the call: nothing is returned.
Fail(e) == /\ error' = e /\ pc' = "failed" /\ result' = None
FailGeometry(e) == /\ error' = e /\ pc' = "geometry_failed" /\ result' = None

(***************************************************************************)
(* Friends._generate_dataset_inputs                                        *)
(***************************************************************************)
\* Lines 89-93: resolve the directory and load cameras.json.
LoadCameras ==
    /\ pc = "start"
    /\ opened' = opened \cup {PathJoin(abs_dir, S_cameras_json)}
    /\ IF files.cameras = None
       THEN /\ Fail("FileNotFoundError")
            /\ UNCHANGED <<frames, bbox>>
       ELSE /\ frames' = files.cameras[1].frames
            /\ bbox' = files.cameras[1].bbox
            /\ pc' = "loop"
            /\ UNCHANGED <<error, result>>
    /\ UNCHANGED <<config, files, image_filenames, fx, fy, cx, cy,
                   camera_to_worlds, semantics, invoked, lastCall>>

\* A loop that puts each new entry in front of the earlier ones.
ListInsertFront(l, x) == <<x>> \o l

\* list.append (lines 107-112).
ListAppend(l, x) == Append(l, x)

\* Lines 101-112: one iteration of the loop over the frames.
LoopFrame ==
    /\ pc = "loop"
    /\ Len(image_filenames) < Len(frames)
    /\ LET frame == frames[Len(image_filenames) + 1]
           image_filename == PathJoin(PathJoin(abs_dir, S_images), frame.image_name)
           intrinsics == frame.intrinsics
           camtoworld == Rows3(frame.camtoworld)
       IN /\ image_filenames' = ListAppend(image_filenames, image_filename)
          /\ fx' = ListAppend(fx, intrinsics[1][1])
          /\ fy' = ListAppend(fy, intrinsics[2][2])
          /\ cx' = ListAppend(cx, intrinsics[1][3])
          /\ cy' = ListAppend(cy, intrinsics[2][3])
          /\ camera_to_worlds' = ListAppend(camera_to_worlds, camtoworld)
    /\ UNCHANGED <<config, files, pc, frames, bbox, semantics, error, result,
                   opened, invoked, lastCall>>

\* Lines 113-117: torch.stack refuses an empty list of tensors.
Stack ==
    /\ pc = "loop"
    /\ Len(image_filenames) = Len(frames)
    /\ IF Len(fx) = 0
       THEN Fail("RuntimeError")
       ELSE /\ pc' = "rotate"
            /\ UNCHANGED <<error, result>>
    /\ UNCHANGED <<config, files, frames, bbox, image_filenames, fx, fy, cx, cy,
                   camera_to_worlds, semantics, opened, invoked, lastCall>>

\* A rotation by 90 degrees about the x axis in the other direction.
rotationOpposite == << <<1, 0, 0>>, <<0, 0, 1>>, <<0, -1, 0>> >>

\* Line 120.
rotation == << <<1, 0, 0>>, <<0, 0, -1>>, <<0, 1, 0>> >>

\* Lines 121-125: rotate the cameras and the box 90 degrees about the x axis.
Rotate ==
    /\ pc = "rotate"
    /\ camera_to_worlds' =
          [i \in 1..Len(camera_to_worlds) |-> MatMul(rotation, Rows3(camera_to_worlds[i]))]
    /\ bbox' = Transpose(MatMul(rotation, Transpose(bbox)))
    /\ pc' = "semantics"
    /\ UNCHANGED <<config, files, frames, image_filenames, fx, fy, cx, cy,
                   semantics, error, result, opened, invoked, lastCall>>

\* Lines 135 and 139: the label file of an image file.
LabelFilename(image_filename, dir) ==
    PathOf(Replace(Replace(image_filename, S_images_dir, dir), S_jpg, S_png))

\* tensor / 255.0, kept as an exact fraction.
Scaled(t, d) == [num |-> t, den |-> d]

\* Every label file of the images listed so far.
AllLabelFilenames ==
    { LabelFilename(image_filenames[i], d) :
        i \in 1..Len(image_filenames), d \in {S_thing_dir, S_stuff_dir} }

\* A construction that decodes every label file while it builds the lists.
SemanticsReadsEager == {PathJoin(abs_dir, S_panoptic_json)} \cup AllLabelFilenames

\* Line 142: the one file the semantics branch opens.
SemanticsReads == {PathJoin(abs_dir, S_panoptic_json)}

\* Lines 132-154: the optional semantics.
BuildSemantics ==
    /\ pc = "semantics"
    /\ IF config.include_semantics
       THEN LET thing_filenames ==
                    [i \in 1..Len(image_filenames) |->
                        LabelFilename(image_filenames[i], S_thing_dir)]
                stuff_filenames ==
                    [i \in 1..Len(image_filenames) |->
                        LabelFilename(image_filenames[i], S_stuff_dir)]
            IN /\ opened' = opened \cup SemanticsReads
               /\ IF files.panoptic = None
                  THEN /\ Fail("FileNotFoundError")
                       /\ UNCHANGED semantics
                  ELSE LET panoptic_classes == files.panoptic[1]
                       IN /\ semantics' = Some(
                                [stuff_classes |-> panoptic_classes.stuff,
                                 stuff_colors |-> Scaled(panoptic_classes.stuff_colors, 255),
                                 stuff_filenames |-> stuff_filenames,
                                 thing_classes |-> panoptic_classes.thing,
                                 thing_colors |-> Scaled(panoptic_classes.thing_colors, 255),
                                 thing_filenames |-> thing_filenames])
                          /\ pc' = "assert"
                          /\ UNCHANGED <<error, result>>
       ELSE /\ semantics' = None
            /\ pc' = "assert"
            /\ UNCHANGED <<error, result, opened>>
    /\ UNCHANGED <<config, files, frames, bbox, image_filenames, fx, fy, cx, cy,
                   camera_to_worlds, invoked, lastCall>>

\* A comparison of the first entry with itself.
AllEqualFirstSelf(t) == \A i \in 1..Len(t) : t[1] = t[1]

\* torch.all(t[0] == t)
AllEqualFirst(t) == \A i \in 1..Len(t) : t[1] = t[i]

\* Lines 159-166.
Cameras ==
    [fx |-> fx, fy |-> fy, cx |-> cx[1], cy |-> cy[1],
     camera_to_worlds |-> camera_to_worlds, camera_type |-> "PERSPECTIVE"]

\* Line 172: the loader and its captured keyword arguments.
AdditionalInputs ==
    [semantics |-> [func |-> Some("get_semantics_and_masks"),
                    kwargs |-> [semantics |-> semantics]]]

\* Lines 168-173.
DatasetInputs ==
    [image_filenames |-> image_filenames,
     cameras |-> Cameras,
     scene_bounds |-> [aabb |-> bbox],
     additional_inputs |-> AdditionalInputs]

\* Lines 156-174: the two assertions, then the descriptor is built and returned.
Finish ==
    /\ pc = "assert"
    /\ IF AllEqualFirst(cx) /\ AllEqualFirst(cy)
       THEN /\ result' = Some(DatasetInputs)
            /\ pc' = "done"
            /\ UNCHANGED error
       ELSE Fail("AssertionError")
    /\ UNCHANGED <<config, files, frames, bbox, image_filenames, fx, fy, cx, cy,
                   camera_to_worlds, semantics, opened, invoked, lastCall>>

(***************************************************************************)
(* get_semantics_and_masks, invoked through the descriptor's               *)
(* additional_inputs["semantics"]: func(image_idx, **kwargs)               *)
(***************************************************************************)
\* list.index(x): the 0-based position of the first x, -1 standing for ValueError.
RECURSIVE IndexFrom(_, _, _)
IndexFrom(l, x, i) ==
    IF i > Len(l) THEN -1
    ELSE IF l[i] = x THEN i - 1 ELSE IndexFrom(l, x, i + 1)

Index(l, x) == IndexFrom(l, x, 1)

\* torch.from_numpy(np.array(pil_image, dtype="int32"))[..., None]
Unsqueeze(img) ==
    [r \in 1..Len(img) |-> [c \in 1..Len(img[r]) |-> <<img[r][c]>>]]

\* A mask with the comparison inverted: 1 at the person pixels.
MaskInverted(thing_semantics, person_index) ==
    [r \in 1..Len(thing_semantics) |->
        [c \in 1..Len(thing_semantics[r]) |->
            <<IF thing_semantics[r][c][1] = person_index THEN 1 ELSE 0>>]]

\* Line 47: (thing_semantics != person_index).to(torch.float32)
Mask(thing_semantics, person_index) ==
    [r \in 1..Len(thing_semantics) |->
        [c \in 1..Len(thing_semantics[r]) |->
            <<IF thing_semantics[r][c][1] # person_index THEN 1 ELSE 0>>]]

Call(i, e, t, st, ret) ==
    [image_idx |-> i, error |-> e, thing |-> t, stuff |-> st, ret |-> ret]

ImageFiles == {None} \cup {Some(img) : img \in LabelImages}

\* Lines 43-52.  The two label files hold whatever the environment put there.
get_semantics_and_masks(image_idx, sem) ==
    IF sem = None
    THEN /\ lastCall' = Some(Call(image_idx, "AttributeError", None, None, None))
         /\ UNCHANGED opened
    ELSE LET s == sem[1]
             person_index == Index(s.thing_classes, "person")
         IN IF person_index < 0
            THEN /\ lastCall' = Some(Call(image_idx, "ValueError", None, None, None))
                 /\ UNCHANGED opened
            ELSE IF image_idx >= Len(s.thing_filenames)
            THEN /\ lastCall' = Some(Call(image_idx, "IndexError", None, None, None))
                 /\ UNCHANGED opened
            ELSE LET thing_image_filename == s.thing_filenames[image_idx + 1]
                     stuff_image_filename == s.stuff_filenames[image_idx + 1]
                 IN \E t \in ImageFiles :
                       IF t = None
                       THEN /\ opened' = opened \cup {thing_image_filename}
                            /\ lastCall' = Some(Call(image_idx, "FileNotFoundError",
                                                     None, None, None))
                       ELSE \E st \in ImageFiles :
                            LET thing_semantics == Unsqueeze(t[1])
                                mask == Mask(thing_semantics, person_index)
                            IN /\ opened' = opened \cup {thing_image_filename,
                                                         stuff_image_filename}
                               /\ IF st = None
                                  THEN lastCall' = Some(Call(image_idx, "FileNotFoundError",
                                                             t, None, None))
                                  ELSE lastCall' = Some(Call(image_idx, "", t, st,
                                          Some([mask |-> mask,
                                                semantics |-> Unsqueeze(st[1])])))

\* The consumer of the descriptor calls the registered function on an image index.
InvokeLoader ==
    /\ pc = "done"
    /\ LET binding == result[1].additional_inputs.semantics
       IN /\ binding.func = Some("get_semantics_and_masks")
          /\ \E image_idx \in 0..(MaxFrames - 1) :
                /\ invoked' = invoked \cup {image_idx}
                /\ get_semantics_and_masks(image_idx, binding.kwargs.semantics)
    /\ UNCHANGED <<config, files, pc, frames, bbox, image_filenames, fx, fy, cx, cy,
                   camera_to_worlds, semantics, error, result>>

(***************************************************************************)
(* Friends._get_aabb_and_transform                                         *)
(***************************************************************************)
\* Line 79: x / 2.0 (the modelled dimensions are even).
Half(x) == x \div 2

\* An assertion on the top-left entry instead of the bottom-right one.
HomogeneousOkTopLeft(transposed_point_cloud_transform) ==
    transposed_point_cloud_transform[1][1] = 1

\* Line 74: the homogeneous entry that is asserted.
HomogeneousOk(transposed_point_cloud_transform) ==
    transposed_point_cloud_transform[4][4] = 1

\* Lines 76-85: the two corners of the box, transformed.
Aabb(data) ==
    LET bbox_transform == Transpose(Reshape44(data.object.children[2].matrix))
        g == data.geometries[2]
        temp == <<Half(g.width), Half(g.height), Half(g.depth)>>
        corners == << [k \in 1..3 |-> -temp[k]], temp >>
        homogeneous == [r \in 1..2 |-> corners[r] \o <<1>>]
    IN Cols3(Transpose(MatMul(bbox_transform, Transpose(homogeneous))))

\* Lines 68-85.
GetAabbAndTransform ==
    /\ pc = "geometry"
    /\ IF files.threejs = None
       THEN /\ FailGeometry("AssertionError")
            /\ UNCHANGED opened
       ELSE LET data == files.threejs[1]
                transposed_point_cloud_transform ==
                    Transpose(Reshape44(data.object.children[1].matrix))
            IN /\ opened' = opened \cup {PathJoin(abs_dir, S_threejs_json)}
               /\ IF HomogeneousOk(transposed_point_cloud_transform)
                  THEN /\ result' = Some([aabb |-> Aabb(data),
                                          transform |-> transposed_point_cloud_transform])
                       /\ pc' = "geometry_done"
                       /\ UNCHANGED error
                  ELSE FailGeometry("AssertionError")
    /\ UNCHANGED <<config, files, frames, bbox, image_filenames, fx, fy, cx, cy,
                   camera_to_worlds, semantics, invoked, lastCall>>

Next ==
    \/ LoadCameras
    \/ LoopFrame
    \/ Stack
    \/ Rotate
    \/ BuildSemantics
    \/ Finish
    \/ InvokeLoader
    \/ GetAabbAndTransform

Spec == Init /\ [][Next]_vars

(***************************************************************************)
(* Properties                                                              *)
(***************************************************************************)
InFrames == files.cameras[1].frames
InBBox == files.cameras[1].bbox
NFrames == Len(InFrames)
Descriptor == result[1]
CamerasPath == abs_dir \o <<SLASH>> \o S_cameras_json
PanopticPath == abs_dir \o <<SLASH>> \o S_panoptic_json

\* The call of _generate_dataset_inputs has ended, on a cameras.json that exists.
Ended == pc \in {"done", "failed"} /\ files.cameras # None

IsNormalForm(s) == PathOf(s) = s

\* Entry i of the camera collection comes from frame i of the file.
EntryFromFrame(d, i) ==
    LET f == InFrames[i]
    IN /\ d.cameras.fx[i] = f.intrinsics[1][1]
       /\ d.cameras.fy[i] = f.intrinsics[2][2]
       /\ d.cameras.camera_to_worlds[i][1] = f.camtoworld[1]
       /\ d.cameras.camera_to_worlds[i][3] = f.camtoworld[2]
       /\ \A c \in 1..4 : d.cameras.camera_to_worlds[i][2][c] = 0 - f.camtoworld[3][c]

SameLengths(d) ==
    /\ Len(d.cameras.fx) = NFrames
    /\ Len(d.cameras.fy) = NFrames
    /\ Len(d.cameras.camera_to_worlds) = NFrames
    /\ Len(d.image_filenames) = NFrames

\* C1 as stated: for a cameras.json with any number N of frame entries the call
\* returns a descriptor with N camera entries and N image paths, entry i from
\* frame i, image path i being <absolute data directory>/images/<image_name>.
C1_Original ==
    Ended =>
        /\ pc = "done"
        /\ SameLengths(Descriptor)
        /\ \A i \in 1..NFrames :
              /\ EntryFromFrame(Descriptor, i)
              /\ Descriptor.image_filenames[i] =
                    abs_dir \o S_images_dir \o InFrames[i].image_name

\* C1 amended: whenever the call returns a descriptor (there is then at least
\* one frame), the camera collection and the image path list have N entries,
\* entry i from frame i, and image path i is the pathlib join of the absolute
\* data directory, "images" and image_name: <directory>/images/<image_name> for
\* a relative image_name in normal form, image_name itself for an absolute one.
C1_FramesInOrder ==
    pc = "done" =>
        /\ NFrames >= 1
        /\ SameLengths(Descriptor)
        /\ \A i \in 1..NFrames :
              LET name == InFrames[i].image_name
              IN /\ EntryFromFrame(Descriptor, i)
                 /\ (~IsAbsolute(name) /\ IsNormalForm(name)) =>
                       Descriptor.image_filenames[i] = abs_dir \o S_images_dir \o name
                 /\ (IsAbsolute(name) /\ IsNormalForm(name)) =>
                       Descriptor.image_filenames[i] = name

C1_Witness ==
    /\ pc = "done"
    /\ NFrames = 2
    /\ InFrames[1].image_name = N_a /\ InFrames[2].image_name = N_b
    /\ InFrames[1].intrinsics[1][1] # InFrames[2].intrinsics[1][1]
    /\ Descriptor.image_filenames[2] = abs_dir \o S_images_dir \o N_b
    /\ Descriptor.cameras.fx[2] = InFrames[2].intrinsics[1][1]

\* Some frame's cx or cy differs from frame 0's.
Mismatch ==
    \E i \in 1..NFrames :
        \/ InFrames[i].intrinsics[1][3] # InFrames[1].intrinsics[1][3]
        \/ InFrames[i].intrinsics[2][3] # InFrames[1].intrinsics[2][3]

CarriesFirstPrincipalPoint ==
    pc = "done" =>
        /\ ~Mismatch
        /\ Descriptor.cameras.cx = InFrames[1].intrinsics[1][3]
        /\ Descriptor.cameras.cy = InFrames[1].intrinsics[2][3]

\* C2 as stated: a cx or cy that differs from frame 0's ends the call with an
\* assertion error and no descriptor; a returned descriptor carries frame 0's
\* cx and cy.
C2_Original ==
    Ended =>
        /\ Mismatch => (pc = "failed" /\ error = "AssertionError" /\ result = None)
        /\ CarriesFirstPrincipalPoint

\* C2 amended: a cx or cy that differs from frame 0's ends the call with an
\* error and no descriptor; the error is the assertion error, except that with
\* semantics enabled and panoptic_classes.json missing the call has already
\* ended with the load error.  A returned descriptor carries frame 0's cx and cy.
C2_PrincipalPoint ==
    Ended =>
        /\ Mismatch =>
              /\ pc = "failed" /\ result = None
              /\ error = IF config.include_semantics /\ files.panoptic = None
                         THEN "FileNotFoundError" ELSE "AssertionError"
        /\ CarriesFirstPrincipalPoint

C2_Witness ==
    /\ pc = "failed" /\ error = "AssertionError"
    /\ files.cameras # None /\ NFrames = 2 /\ Mismatch
    /\ InFrames[1].intrinsics[1][3] # InFrames[2].intrinsics[1][3]

\* (x, y, z) -> (x, -z, y)
Rot(v) == <<v[1], 0 - v[3], v[2]>>
Column(M, c) == <<M[1][c], M[2][c], M[3][c]>>

\* C3: once the rotation has run, every column of every frame's 3x4 transform
\* and both bounding-box corners are the input's under (x, y, z) -> (x, -z, y),
\* and the descriptor returns exactly these.
C3_Rotation ==
    pc \in {"semantics", "assert", "done"} =>
        /\ \A i \in 1..NFrames : \A c \in 1..4 :
              Column(camera_to_worlds[i], c) = Rot(Column(InFrames[i].camtoworld, c))
        /\ \A k \in 1..2 : bbox[k] = Rot(InBBox[k])
        /\ pc = "done" =>
              /\ Descriptor.cameras.camera_to_worlds = camera_to_worlds
              /\ Descriptor.scene_bounds.aabb = bbox

C3_Witness ==
    /\ pc = "done"
    /\ \E i \in 1..NFrames :
          /\ Column(InFrames[i].camtoworld, 4) = <<0, 1, 0>>
          /\ Column(Descriptor.cameras.camera_to_worlds[i], 4) = <<0, 0, 1>>
    /\ InBBox[2] = <<1, 2, 3>> /\ Descriptor.scene_bounds.aabb[2] = <<1, -3, 2>>

IsMinMax(aabb) == \A k \in 1..3 : aabb[1][k] <= aabb[2][k]

\* C4 as stated: for an input bbox that is a min/max corner pair, the scene
\* bounds of the returned descriptor are a min/max corner pair.
C4_Original ==
    (pc = "done" /\ IsMinMax(InBBox)) => IsMinMax(Descriptor.scene_bounds.aabb)

\* C5 as stated: with semantics disabled the returned descriptor binds no loader
\* function, and neither panoptic_classes.json nor a label file was read.
C5_Original ==
    (pc = "done" /\ ~config.include_semantics) =>
        /\ Descriptor.additional_inputs.semantics.func = None
        /\ opened \cap ({PanopticPath} \cup AllLabelFilenames) = {}

BoundSemantics == Descriptor.additional_inputs.semantics.kwargs.semantics

\* The 0-based position of the first "person" of a class list that has one.
PersonPosition(classes) ==
    (CHOOSE k \in 1..Len(classes) :
        classes[k] = "person" /\ \A j \in 1..(k - 1) : classes[j] # "person") - 1

\* C6: an invocation that read a thing and a stuff label image returns a mask
\* and a label map of the images' dimensions; every mask value is 0 or 1, it is
\* 0 exactly at the pixels whose thing class index is the index of "person",
\* and the label map equals the stuff label image pixel for pixel.
C6_Mask ==
    lastCall # None =>
        LET call == lastCall[1]
        IN /\ (call.thing # None /\ call.stuff # None) => call.ret # None
           /\ call.ret # None =>
                 LET thing == call.thing[1]
                     stuff == call.stuff[1]
                     mask == call.ret[1].mask
                     labels == call.ret[1].semantics
                     person == PersonPosition(BoundSemantics[1].thing_classes)
                 IN /\ call.error = ""
                    /\ Len(mask) = Len(thing) /\ Len(labels) = Len(stuff)
                    /\ \A r \in 1..Len(thing) :
                          /\ Len(mask[r]) = Len(thing[r])
                          /\ \A c \in 1..Len(thing[r]) :
                                /\ mask[r][c] \in {<<0>>, <<1>>}
                                /\ mask[r][c] = <<0>> <=> thing[r][c] = person
                    /\ \A r \in 1..Len(stuff) :
                          /\ Len(labels[r]) = Len(stuff[r])
                          /\ \A c \in 1..Len(stuff[r]) : labels[r][c] = <<stuff[r][c]>>

C6_Witness ==
    /\ lastCall # None
    /\ lastCall[1].ret # None
    /\ lastCall[1].image_idx = 1
    /\ BoundSemantics[1].thing_classes = <<"car", "person", "person">>
    /\ lastCall[1].thing # lastCall[1].stuff
    /\ lastCall[1].ret[1].mask[1] = << <<1>>, <<0>> >>

GeometryEnded == pc \in {"geometry_done", "geometry_failed"}
PointCloudMatrix == files.threejs[1].object.children[1].matrix
BoxMatrix == files.threejs[1].object.children[2].matrix
AssertionFailed == pc = "geometry_failed" /\ error = "AssertionError" /\ result = None

\* C7 as stated: a threejs.json in which a parsed 4x4 transform has a bottom-right
\* entry other than 1 ends the call with an assertion and no result, and so does
\* an absent threejs.json.
C7_Original ==
    GeometryEnded =>
        /\ files.threejs = None => AssertionFailed
        /\ (files.threejs # None /\ (PointCloudMatrix[16] # 1 \/ BoxMatrix[16] # 1)) =>
              AssertionFailed

\* C7 amended: a threejs.json whose point-cloud transform (children[0]) has a
\* bottom-right entry other than 1 ends the call with an assertion and no
\* result, and so does an absent threejs.json; the bottom-right entry of the box
\* transform (children[1]) is not checked, and a result is returned whenever the
\* file exists and the point-cloud entry is 1.
C7_HomogeneousAssert ==
    GeometryEnded =>
        /\ files.threejs = None => AssertionFailed
        /\ (files.threejs # None /\ PointCloudMatrix[16] # 1) => AssertionFailed
        /\ (files.threejs # None /\ PointCloudMatrix[16] = 1) =>
              (pc = "geometry_done" /\ result # None /\ error = "")

C7_Witness ==
    /\ pc = "geometry_failed"
    /\ files.threejs # None
    /\ PointCloudMatrix[16] = 2
    /\ BoxMatrix[16] = 1
    /\ result = None

\* The label files of the image indices the loader was invoked with.
InvokedLabelFilenames ==
    IF semantics = None THEN {}
    ELSE UNION { {semantics[1].thing_filenames[i + 1], semantics[1].stuff_filenames[i + 1]} :
                    i \in {j \in invoked : j < Len(semantics[1].thing_filenames)} }

\* C8: with semantics enabled, until the descriptor is returned the loader has
\* not been invoked and only cameras.json and panoptic_classes.json have been
\* opened; afterwards every opened label file is the thing or stuff file of an
\* index the loader was invoked with.
C8_Lazy ==
    config.include_semantics =>
        /\ pc # "done" => (invoked = {} /\ lastCall = None)
        /\ opened \subseteq {CamerasPath, PanopticPath} \cup InvokedLabelFilenames

C8_Witness ==
    /\ config.include_semantics
    /\ pc = "done"
    /\ invoked = {1}
    /\ lastCall[1].ret # None
    /\ semantics[1].thing_filenames[1] # semantics[1].thing_filenames[2]
    /\ semantics[1].thing_filenames[2] \in opened
    /\ semantics[1].stuff_filenames[2] \in opened
    /\ semantics[1].thing_filenames[1] \notin opened
    /\ semantics[1].stuff_filenames[1] \notin opened

RECURSIVE LastDot(_, _)
LastDot(s, i) == IF i = 0 THEN 0 ELSE IF s[i] = "." THEN i ELSE LastDot(s, i - 1)

\* The final component of a file name without its last suffix.
Stem(name) ==
    LET ps == Parts(name)
        last == ps[Len(ps)]
        k == LastDot(last, Len(last))
    IN IF k <= 1 THEN last ELSE SubSeq(last, 1, k - 1)

\* C9 as stated: with semantics enabled the thing and stuff lists have one entry
\* per frame, entry i being
\* <absolute data directory>/segmentations/<thing|stuff>/<image_name stem>.png
\* (stated here for relative image names, where the claim already fails).
C9_Original ==
    (/\ pc = "done" /\ config.include_semantics
     /\ \A i \in 1..NFrames : ~IsAbsolute(InFrames[i].image_name)) =>
        LET sem == BoundSemantics[1]
        IN /\ Len(sem.thing_filenames) = NFrames
           /\ Len(sem.stuff_filenames) = NFrames
           /\ \A i \in 1..NFrames :
                 LET stem == Stem(InFrames[i].image_name)
                 IN /\ sem.thing_filenames[i] = abs_dir \o S_thing_dir \o stem \o S_png
                    /\ sem.stuff_filenames[i] = abs_dir \o S_stuff_dir \o stem \o S_png

\* The image of a corner under the transposed box matrix, homogeneous
\* coordinate dropped.
BoxImage(v) ==
    [k \in 1..3 |-> BoxMatrix[k] * v[1] + BoxMatrix[4 + k] * v[2]
                    + BoxMatrix[8 + k] * v[3] + BoxMatrix[12 + k]]

\* C10 as stated: the returned box is a min/max corner pair whose corners are
\* the images under the box transform of (-w/2, -h/2, -d/2) and (w/2, h/2, d/2).
C10_Original ==
    pc = "geometry_done" =>
        LET g == files.threejs[1].geometries[2]
            hi == <<g.width \div 2, g.height \div 2, g.depth \div 2>>
            lo == [k \in 1..3 |-> 0 - hi[k]]
        IN /\ result[1].aabb = <<BoxImage(lo), BoxImage(hi)>>
           /\ IsMinMax(result[1].aabb)

====
